---- MODULE Spec2Model ----
(***************************************************************************)
(* Kernel (argument binding, constant staging) and Device (N-D range       *)
(* dispatcher, interactive command loop) of the OpenCL device simulator.   *)
(* Kernel.cpp is src/unnamed/part_000 lines 1-286, Device.cpp is lines     *)
(* 288-631 of the same file.                                               *)
(***************************************************************************)
EXTENDS Integers, Sequences, FiniteSets, TLC

\* ------------------------------------------------------------------------
\* Bounds of the exploration
\* ------------------------------------------------------------------------
MaxLocalWords  == 7       \* setArgument is explored while m_localMemory stays <= 4 * this
MaxWorkItems   == 4       \* product of the global sizes of a launch
MaxLocalSize   == 2       \* largest local_size_d the host passes
MaxLaunches    == 2       \* Device::run calls per behaviour

\* ------------------------------------------------------------------------
\* Program constants
\* ------------------------------------------------------------------------
PtrWidth == 8             \* sizeof(size_t)

\* ------------------------------------------------------------------------
\* The parsed module handed to Kernel::Kernel: types, formal parameters,
\* module-scope variables, metadata
\* ------------------------------------------------------------------------
\* An llvm::Type as far as the kernel looks at it: isPointerTy,
\* getPointerAddressSpace, isVectorTy, getVectorNumElements, getTypeSize.
GlobalPtrTy == [isPointerTy |-> TRUE,  addressSpace |-> "AddrSpaceGlobal",
                isVectorTy |-> FALSE, vectorNumElements |-> 1, typeSize |-> 8]
LocalPtrTy  == [isPointerTy |-> TRUE,  addressSpace |-> "AddrSpaceLocal",
                isVectorTy |-> FALSE, vectorNumElements |-> 1, typeSize |-> 8]
PrivatePtrTy == [isPointerTy |-> TRUE, addressSpace |-> "AddrSpacePrivate",
                 isVectorTy |-> FALSE, vectorNumElements |-> 1, typeSize |-> 8]
Int32Ty     == [isPointerTy |-> FALSE, addressSpace |-> "AddrSpacePrivate",
                isVectorTy |-> FALSE, vectorNumElements |-> 1, typeSize |-> 4]
Float4Ty    == [isPointerTy |-> FALSE, addressSpace |-> "AddrSpacePrivate",
                isVectorTy |-> TRUE,  vectorNumElements |-> 4, typeSize |-> 16]
Float3Ty    == [isPointerTy |-> FALSE, addressSpace |-> "AddrSpacePrivate",
                isVectorTy |-> TRUE,  vectorNumElements |-> 3, typeSize |-> 16]

\* The formal parameter lists of the kernels explored (m_function's args).
Signatures == { <<LocalPtrTy, Int32Ty, Float4Ty>>,
                <<GlobalPtrTy, LocalPtrTy, Float3Ty>>,
                <<PrivatePtrTy, Int32Ty>> }

\* An llvm::Constant as far as the kernel looks at it: the type (getTypeID,
\* getTypeSize), the value of an integer (its APInt) or of a float (the bits
\* of the IEEE single), and the elements of an aggregate.
IntConstant(v) ==
  [typeID |-> "IntegerTyID", typeSize |-> 4, bits |-> v, elements |-> <<>>]
FloatConstant(b) ==
  [typeID |-> "FloatTyID", typeSize |-> 4, bits |-> b, elements |-> <<>>]
DoubleConstant ==
  [typeID |-> "DoubleTyID", typeSize |-> 8, bits |-> 1, elements |-> <<>>]
StructConstant ==
  [typeID |-> "StructTyID", typeSize |-> 4, bits |-> 0, elements |-> <<IntConstant(3)>>]
ArrayConstant(elems) ==
  [typeID |-> "ArrayTyID", typeSize |-> Len(elems) * elems[1].typeSize,
   bits |-> 0, elements |-> elems]

\* llvm::Type::isArrayTy and llvm::Type::isPrimitiveType (the type ids up
\* to LastPrimitiveTyID; the integer type is not among them).
isArrayTy(typeID) == typeID = "ArrayTyID"
isPrimitiveType(typeID) ==
  typeID \in {"VoidTyID", "HalfTyID", "FloatTyID", "DoubleTyID", "X86_FP80TyID",
              "FP128TyID", "PPC_FP128TyID", "LabelTyID", "MetadataTyID", "X86_MMXTyID"}

\* Module-scope variables in module order: address space of the variable,
\* isConstant, the size of its initializer's type, and the initializer:
\*   local int a;  constant int T[2] = {7, 258};  local long b;
\*   constant double D = 0x1p-1074;  constant struct {int} S = {3};
\*   constant double E[1] = {0x1p-1074};  constant float F = 1.0f;
ModuleGlobals ==
  << [addressSpace |-> "AddrSpaceLocal",    isConstant |-> FALSE, typeSize |-> 4,
      initializer |-> IntConstant(0)],
     [addressSpace |-> "AddrSpaceConstant", isConstant |-> TRUE,  typeSize |-> 8,
      initializer |-> ArrayConstant(<<IntConstant(7), IntConstant(258)>>)],
     [addressSpace |-> "AddrSpaceLocal",    isConstant |-> FALSE, typeSize |-> 8,
      initializer |-> ArrayConstant(<<IntConstant(0), IntConstant(0)>>)],
     [addressSpace |-> "AddrSpaceConstant", isConstant |-> TRUE,  typeSize |-> 8,
      initializer |-> DoubleConstant],
     [addressSpace |-> "AddrSpaceConstant", isConstant |-> TRUE,  typeSize |-> 4,
      initializer |-> StructConstant],
     [addressSpace |-> "AddrSpaceConstant", isConstant |-> TRUE,  typeSize |-> 8,
      initializer |-> ArrayConstant(<<DoubleConstant>>)],
     [addressSpace |-> "AddrSpaceConstant", isConstant |-> TRUE,  typeSize |-> 4,
      initializer |-> FloatConstant(1065353216)] >>

\* reqd_work_group_size metadata of the kernels explored; <<0,0,0>> is what
\* the constructor's memset leaves when the metadata is absent.
ReqdWorkGroupSizes == { <<0, 0, 0>>, <<2, 1, 1>> }

\* ------------------------------------------------------------------------
\* State
\* ------------------------------------------------------------------------
VARIABLES
  m_function,               \* Kernel: formal parameter types of the function
  m_requiredWorkGroupSize,  \* Kernel: reqd_work_group_size triple
  m_localMemory,            \* Kernel: local-memory cursor / size
  m_arguments,              \* Kernel: map  value identity -> TypedValue
  reserved,                 \* the local-memory range reserved for each module
                            \* Local variable and each Local-pointer binding
  lastCall,                 \* the latest Kernel::setArgument call, what its
                            \* getArgumentType(index) returned, and the
                            \* kernel state it was made in
  env,                      \* OCLGRIND_INTERACTIVE when the Device was constructed
  m_interactive,            \* Device
  m_running,                \* Device
  m_numGroups,              \* Device: size_t[3]
  m_workGroups,             \* Device: WorkGroup*[totalNumGroups]
  m_globalMemory,           \* Device: the global Memory region
  pc,                       \* where Device::run stands ("idle": not running)
  launch,                   \* Device::run: arguments and locals, and whether
                            \* its command loop has read a line
  events,                   \* what the current (or latest) launch did, in order
  launches,                 \* number of Device::run calls so far
  liveAtEntry,              \* live global allocations when the launch began
  quitReceived,             \* how Device::quit was last called on this Device:
                            \* "no", at the "eof", or as a "command"
  staged                    \* the constants as allocateConstants left them in
                            \* the previous launch and in the latest one

kernelVars == <<m_function, m_requiredWorkGroupSize, m_localMemory, m_arguments>>
deviceVars == <<env, m_interactive, m_running, m_numGroups, m_workGroups,
                m_globalMemory, pc, launch, events, launches, liveAtEntry,
                quitReceived, staged>>
vars == <<m_function, m_requiredWorkGroupSize, m_localMemory, m_arguments,
          reserved, lastCall, env, m_interactive, m_running, m_numGroups, m_workGroups,
          m_globalMemory, pc, launch, events, launches, liveAtEntry,
          quitReceived, staged>>

\* ------------------------------------------------------------------------
\* std::map helpers
\* ------------------------------------------------------------------------
\* m[key] = v on a std::map: inserts the key or overwrites its value.
Put(m, key, v) == [x \in (DOMAIN m) \cup {key} |-> IF x = key THEN v ELSE m[x]]

EmptyMap == [x \in {} |-> 0]

\* ------------------------------------------------------------------------
\* Kernel
\* ------------------------------------------------------------------------
getNumArguments(function) == Len(function)

\* The identity (llvm::Value*) of formal parameter index / module variable n.
getArgument(index) == <<"arg", index>>
GlobalVar(n) == <<"global", n>>

\* A TypedValue: size (bytes per element), num (elements), the length of the
\* buffer behind data, and what the buffer holds.
TypedValue(size, num, buf, data) ==
  [size |-> size, num |-> num, buf |-> buf, data |-> data]

\* What a buffer of buf bytes holds after *((size_t*)data) = x: the whole
\* size_t when it fits; otherwise the store runs past the buffer and the
\* bytes inside it are the low-order or the high-order part of x, depending
\* on the byte order of the build.  (Offsets of the model are below 2^31.)
StoreSizeT(x, buf) ==
  IF buf >= PtrWidth THEN {x}
  ELSE { IF buf >= 4 THEN x ELSE x % (256 ^ buf),
         IF PtrWidth - buf >= 4 THEN 0 ELSE x \div (256 ^ (PtrWidth - buf)) }

\* Kernel::Kernel, "Set-up global variables": the fold over the first n
\* module-scope variables.
RECURSIVE SetUpGlobals(_)
SetUpGlobals(n) ==
  IF n = 0 THEN [m_arguments |-> EmptyMap, m_localMemory |-> 0, m_constants |-> <<>>]
  ELSE LET k == SetUpGlobals(n - 1)
           g == ModuleGlobals[n]
           isLocal == g.addressSpace = "AddrSpaceLocal"
       IN [m_arguments |->
             IF isLocal
             THEN Put(k.m_arguments, GlobalVar(n),
                      TypedValue(PtrWidth, 1, PtrWidth, k.m_localMemory))
             ELSE k.m_arguments,
           m_localMemory |->
             IF isLocal THEN k.m_localMemory + g.typeSize ELSE k.m_localMemory,
           m_constants |->
             IF g.isConstant THEN Append(k.m_constants, n) ELSE k.m_constants]

\* Kernel: the list of constants enumerated at construction.
m_constants == SetUpGlobals(Len(ModuleGlobals)).m_constants

getArgumentSize(function, index) ==
  LET type == function[index + 1]
  IN IF type.isPointerTy THEN PtrWidth ELSE type.typeSize

getArgumentType(function, index) ==
  LET type == function[index + 1]
  IN IF ~type.isPointerTy THEN "CL_KERNEL_ARG_ADDRESS_PRIVATE"
     ELSE CASE type.addressSpace = "AddrSpaceGlobal"   -> "CL_KERNEL_ARG_ADDRESS_GLOBAL"
            [] type.addressSpace = "AddrSpaceConstant" -> "CL_KERNEL_ARG_ADDRESS_CONSTANT"
            [] type.addressSpace = "AddrSpaceLocal"    -> "CL_KERNEL_ARG_ADDRESS_LOCAL"
            [] OTHER -> "0"

\* clone(TypedValue): a deep copy of size*num bytes.
clone(value) == TypedValue(value.size, value.num, value.size * value.num, value.data)

\* Kernel::setArgument, the branch for a Local pointer parameter.
\* The results are the kernel states the call can leave.
SetLocalArgument_sizeTimesNum(args, localMemory, index, value) ==
  LET buf == value.size * value.num
  IN { [m_arguments |-> Put(args, getArgument(index),
                            TypedValue(value.size, value.num, buf, d)),
        m_localMemory |-> localMemory + value.size * value.num]
       : d \in StoreSizeT(localMemory, buf) }

\* The branch for a Local pointer parameter, the cursor advanced by
\* value.num.
SetLocalArgument_advancesByNum(args, localMemory, index, value) ==
  LET buf == value.size * value.num
  IN { [m_arguments |-> Put(args, getArgument(index),
                            TypedValue(value.size, value.num, buf, d)),
        m_localMemory |-> localMemory + value.num]
       : d \in StoreSizeT(localMemory, buf) }

SetLocalArgument(args, localMemory, index, value) ==
  LET buf == value.size * value.num
  IN { [m_arguments |-> Put(args, getArgument(index),
                            TypedValue(value.size, value.num, buf, d)),
        m_localMemory |-> localMemory + value.size]
       : d \in StoreSizeT(localMemory, buf) }

\* Kernel::setArgument, the branch for every other parameter.
SetValueArgument(function, args, localMemory, index, value) ==
  LET type == function[index + 1]
      v == IF type.isVectorTy
           THEN [value EXCEPT !.num = type.vectorNumElements,
                              !.size = value.size \div type.vectorNumElements]
           ELSE value
  IN { [m_arguments |-> Put(args, getArgument(index), clone(v)),
        m_localMemory |-> localMemory] }

\* The range check off by one: index = arg_size() passes, and the binding
\* is recorded under the past-the-end parameter.
setArgument_offByOne(function, args, localMemory, index, value) ==
  IF index > getNumArguments(function)
  THEN { [m_arguments |-> args, m_localMemory |-> localMemory] }
  ELSE IF index = getNumArguments(function)
  THEN { [m_arguments |-> Put(args, getArgument(index), clone(value)),
          m_localMemory |-> localMemory] }
  ELSE IF getArgumentType(function, index) = "CL_KERNEL_ARG_ADDRESS_LOCAL"
  THEN SetLocalArgument(args, localMemory, index, value)
  ELSE SetValueArgument(function, args, localMemory, index, value)

\* Kernel::setArgument.
setArgument(function, args, localMemory, index, value) ==
  IF index >= getNumArguments(function)
  THEN { [m_arguments |-> args, m_localMemory |-> localMemory] }
  ELSE IF getArgumentType(function, index) = "CL_KERNEL_ARG_ADDRESS_LOCAL"
  THEN SetLocalArgument(args, localMemory, index, value)
  ELSE SetValueArgument(function, args, localMemory, index, value)

\* ------------------------------------------------------------------------
\* Memory (global region)
\* ------------------------------------------------------------------------
\* Memory::Memory: no allocation is live.  bytes maps every address handed
\* out so far to the byte it holds.
NewMemory == [next |-> 0, live |-> {}, bytes |-> EmptyMap]

\* Memory::allocateBuffer(size): a fresh range that aliases no live one;
\* fill is the byte the range holds before anything is stored to it.
allocateBuffer(memory, size, fill) ==
  [address |-> memory.next,
   memory  |-> [next  |-> memory.next + size,
                live  |-> memory.live \cup {[base |-> memory.next, size |-> size]},
                bytes |-> [a \in 0 .. (memory.next + size - 1) |->
                             IF a < memory.next THEN memory.bytes[a] ELSE fill]]]

\* Memory::store(address, size, data): data[1..size] lands at address; a
\* store that does not lie within one live allocation stores nothing.
store(memory, address, size, data) ==
  IF \E r \in memory.live : r.base <= address /\ address + size <= r.base + r.size
  THEN [memory EXCEPT !.bytes = [a \in DOMAIN memory.bytes |->
                                   IF a >= address /\ a < address + size
                                   THEN data[a - address + 1] ELSE memory.bytes[a]]]
  ELSE memory

\* The object representation of an APInt's words / of a float on the
\* little-endian host: byte b of a value below 2^31.
ByteOf(v, b) == IF b >= 4 THEN 0 ELSE (v \div (256 ^ b)) % 256
getRawData(v, size) == [n \in 1 .. size |-> ByteOf(v, n - 1)]

\* Kernel::storeConstant.
storeConstant(memory, address, constant) ==
  CASE constant.typeID = "IntegerTyID" ->
         store(memory, address, constant.typeSize,
               getRawData(constant.bits, constant.typeSize))
    [] constant.typeID = "FloatTyID" ->
         store(memory, address, constant.typeSize,
               getRawData(constant.bits, constant.typeSize))
    [] OTHER -> memory

\* The element loop with the element index as the address step.
RECURSIVE StoreElements_unitStride(_, _, _, _)
StoreElements_unitStride(memory, address, initializer, i) ==
  IF i >= Len(initializer.elements) THEN memory
  ELSE StoreElements_unitStride(storeConstant(memory, address + i,
                                              initializer.elements[i + 1]),
                                address, initializer, i + 1)

\* Kernel::allocateConstants, "Initialise buffer contents" of an array: the
\* loop over the elements i .. num-1.
RECURSIVE StoreElements(_, _, _, _)
StoreElements(memory, address, initializer, i) ==
  IF i >= Len(initializer.elements) THEN memory
  ELSE LET elemSize == initializer.elements[1].typeSize
       IN StoreElements(storeConstant(memory, address + i * elemSize,
                                      initializer.elements[i + 1]),
                        address, initializer, i + 1)

\* Kernel::allocateConstants, "Initialise buffer contents".
InitialiseBuffer(memory, address, initializer) ==
  IF isArrayTy(initializer.typeID)
  THEN StoreElements(memory, address, initializer, 0)
  ELSE IF isPrimitiveType(initializer.typeID)
  THEN storeConstant(memory, address, initializer)
  ELSE memory

\* allocateConstants initialising a constant only the first time it is bound.
RECURSIVE allocateConstants_initialiseOnce(_, _, _, _)
allocateConstants_initialiseOnce(args, memory, n, fill) ==
  IF n = 0 THEN [m_arguments |-> args, memory |-> memory]
  ELSE LET k == allocateConstants_initialiseOnce(args, memory, n - 1, fill)
           c == m_constants[n]
           initializer == ModuleGlobals[c].initializer
           a == allocateBuffer(k.memory, initializer.typeSize, fill[n])
       IN [m_arguments |-> Put(k.m_arguments, GlobalVar(c),
                               TypedValue(PtrWidth, 1, PtrWidth, a.address)),
           memory |-> IF GlobalVar(c) \in DOMAIN args THEN a.memory
                      ELSE InitialiseBuffer(a.memory, a.address, initializer)]

\* What Kernel::allocateConstants and Kernel::storeConstant write to cerr
\* for the n-th enumerated constant.
UnhandledLog(n) ==
  LET initializer == ModuleGlobals[m_constants[n]].initializer
      unhandledType(c) == c.typeID \notin {"IntegerTyID", "FloatTyID"}
  IN IF isArrayTy(initializer.typeID)
     THEN [i \in 1 .. Cardinality({ e \in DOMAIN initializer.elements :
                                     unhandledType(initializer.elements[e]) }) |->
             <<"Unhandled constant type", n>>]
     ELSE IF isPrimitiveType(initializer.typeID)
     THEN IF unhandledType(initializer)
          THEN << <<"Unhandled constant type", n>> >> ELSE <<>>
     ELSE << <<"Unhandled constant buffer type", n>> >>

RECURSIVE ConstantsLog(_)
ConstantsLog(n) == IF n = 0 THEN <<>> ELSE ConstantsLog(n - 1) \o UnhandledLog(n)

\* allocateConstants leaving its loop at the first constant it cannot
\* serialise.
RECURSIVE allocateConstants_stopAtUnhandled(_, _, _, _)
allocateConstants_stopAtUnhandled(args, memory, n, fill) ==
  IF n = 0 THEN [m_arguments |-> args, memory |-> memory]
  ELSE LET k == allocateConstants_stopAtUnhandled(args, memory, n - 1, fill)
           c == m_constants[n]
           initializer == ModuleGlobals[c].initializer
           a == allocateBuffer(k.memory, initializer.typeSize, fill[n])
       IN IF \E m \in 1 .. (n - 1) : UnhandledLog(m) # <<>>
          THEN k
          ELSE [m_arguments |-> Put(k.m_arguments, GlobalVar(c),
                                    TypedValue(PtrWidth, 1, PtrWidth, a.address)),
                memory |-> InitialiseBuffer(a.memory, a.address, initializer)]

\* Kernel::allocateConstants: the fold over the first n enumerated constants;
\* fill[c] is what the fresh range of the c-th constant holds.
RECURSIVE allocateConstants(_, _, _, _)
allocateConstants(args, memory, n, fill) ==
  IF n = 0 THEN [m_arguments |-> args, memory |-> memory]
  ELSE LET k == allocateConstants(args, memory, n - 1, fill)
           c == m_constants[n]
           initializer == ModuleGlobals[c].initializer
           a == allocateBuffer(k.memory, initializer.typeSize, fill[n])
       IN [m_arguments |-> Put(k.m_arguments, GlobalVar(c),
                               TypedValue(PtrWidth, 1, PtrWidth, a.address)),
           memory |-> InitialiseBuffer(a.memory, a.address, initializer)]

\* Kernel::deallocateConstants: the body is empty.
deallocateConstants(memory) == memory

\* ------------------------------------------------------------------------
\* Device
\* ------------------------------------------------------------------------
Dims == 1 .. 3

\* Device::run, "Set-up offsets and sizes".
Offset(workDim, globalOffset) ==
  [d \in Dims |-> IF d <= workDim /\ globalOffset[d] # 0 THEN globalOffset[d] ELSE 0]
NDRange(workDim, globalSize) ==
  [d \in Dims |-> IF d <= workDim THEN globalSize[d] ELSE 1]
WGSize(workDim, localSize) ==
  [d \in Dims |-> IF d <= workDim /\ localSize[d] # 0 THEN localSize[d] ELSE 1]

\* Device::run, m_numGroups[d] = ndrange[d]/wgsize[d].
NumGroups(ndrange, wgsize) == [d \in Dims |-> ndrange[d] \div wgsize[d]]

TotalNumGroups(numGroups) == numGroups[1] * numGroups[2] * numGroups[3]

\* The slot of group (i, j, k) in m_workGroups, with x and y exchanged.
WorkGroupIndex_transposed(i, j, k, numGroups) ==
  i + (k * numGroups[1] + j) * numGroups[2]

\* The slot of group (i, j, k) in m_workGroups (Device::run and Device::cont).
WorkGroupIndex(i, j, k, numGroups) ==
  i + (k * numGroups[2] + j) * numGroups[1]

\* The loop nest  for k { for j { for i { body } } }  over numGroups: the
\* first iteration, and the iteration after c; <<>> when there is none.
\* (NextCell_yFastest: the nest with the loops over i and j exchanged.)
FirstCell(numGroups) ==
  IF numGroups[1] = 0 \/ numGroups[2] = 0 \/ numGroups[3] = 0 THEN <<>> ELSE <<0, 0, 0>>
NextCell_yFastest(c, numGroups) ==
  IF c[2] + 1 < numGroups[2] THEN <<c[1], c[2] + 1, c[3]>>
  ELSE IF c[1] + 1 < numGroups[1] THEN <<c[1] + 1, 0, c[3]>>
  ELSE IF c[3] + 1 < numGroups[3] THEN <<0, 0, c[3] + 1>>
  ELSE <<>>

NextCell(c, numGroups) ==
  IF c[1] + 1 < numGroups[1] THEN <<c[1] + 1, c[2], c[3]>>
  ELSE IF c[2] + 1 < numGroups[2] THEN <<0, c[2] + 1, c[3]>>
  ELSE IF c[3] + 1 < numGroups[3] THEN <<0, 0, c[3] + 1>>
  ELSE <<>>

\* A slot of m_workGroups that new[] left unassigned, and a WorkGroup.
NoGroup == [groupID |-> <<>>, ran |-> 0]
WorkGroup(i, j, k) == [groupID |-> <<i, j, k>>, ran |-> 0]

\* array[index] = v; a store outside the array does not land in it.
StoreAt(array, index, v) == [x \in DOMAIN array |-> IF x = index THEN v ELSE array[x]]

\* array[index]; an index outside the array reads no WorkGroup of the launch.
SlotAt(array, index) == IF index \in DOMAIN array THEN array[index] ELSE NoGroup

\* The work-items of a work-group: the local ids, and the global id of each:
\* g_d = group_d * local_size_d + l_d + global_offset_d.
LocalIDs(wgsize) ==
  { <<x, y, z>> : x \in 0 .. (wgsize[1] - 1), y \in 0 .. (wgsize[2] - 1),
                  z \in 0 .. (wgsize[3] - 1) }
GlobalID(groupID, localID, offset, wgsize) ==
  [d \in Dims |-> groupID[d] * wgsize[d] + localID[d] + offset[d]]

\* Device::run, the "Create work-groups" loop nest from iteration c on:
\* the array and the events it leaves.
RECURSIVE CreateWorkGroups(_, _, _)
CreateWorkGroups(c, numGroups, acc) ==
  IF c = <<>> THEN acc
  ELSE LET index == WorkGroupIndex(c[1], c[2], c[3], numGroups)
       IN CreateWorkGroups(NextCell(c, numGroups), numGroups,
            [workGroups |-> StoreAt(acc.workGroups, index, WorkGroup(c[1], c[2], c[3])),
             events     |-> Append(acc.events, <<"new", index, c>>)])

\* Device::cont, its loop nest from iteration c on: workGroup->run() on the
\* slot of each (i, j, k).
RECURSIVE RunWorkGroups(_, _, _)
RunWorkGroups(c, numGroups, acc) ==
  IF c = <<>> THEN acc
  ELSE LET index == WorkGroupIndex(c[1], c[2], c[3], numGroups)
       IN RunWorkGroups(NextCell(c, numGroups), numGroups,
            [workGroups |-> StoreAt(acc.workGroups, index,
                                    [SlotAt(acc.workGroups, index) EXCEPT !.ran = @ + 1]),
             events     |-> Append(acc.events,
                                   <<"run", index, SlotAt(acc.workGroups, index).groupID>>)])

\* Device::cont: runs every group, then m_running = false.
cont(workGroups, numGroups, evs) ==
  RunWorkGroups(FirstCell(numGroups), numGroups, [workGroups |-> workGroups, events |-> evs])

\* The "Destroy work-groups" loop stopping one slot early.
DestroyWorkGroups_skipLast(totalNumGroups) ==
  [x \in 1 .. (totalNumGroups - 1) |-> <<"delete", x - 1>>]

\* Device::run, "Destroy work-groups": delete m_workGroups[i] for every
\* i < totalNumGroups.
DestroyWorkGroups(totalNumGroups) ==
  [x \in 1 .. totalNumGroups |-> <<"delete", x - 1>>]

\* Device::quit leaving the Device interactive.
quit_keepsInteractive(interactive, running) ==
  [m_interactive |-> interactive, m_running |-> FALSE]

\* Device::quit: m_interactive = false; m_running = false.
quit(interactive, running) == [m_interactive |-> FALSE, m_running |-> FALSE]

NoLaunch == [workDim |-> 0, globalOffset |-> <<>>, globalSize |-> <<>>,
             localSize |-> <<>>, offset |-> <<>>, ndrange |-> <<>>,
             wgsize |-> <<>>, totalNumGroups |-> 0, read |-> FALSE]

\* ------------------------------------------------------------------------
\* Host inputs
\* ------------------------------------------------------------------------
\* The values a host passes: <<size, num>> with a payload; size * num bytes.
ArgShapes   == { <<4, 1>>, <<8, 1>>, <<16, 1>>, <<4, 4>> }
ArgPayloads == {5}
ArgValues   == { TypedValue(s[1], s[2], s[1] * s[2], d) : s \in ArgShapes, d \in ArgPayloads }
ArgIndices(function) == 0 .. (getNumArguments(function) + 1)

NoCall == [index |-> -1, value |-> TypedValue(0, 0, 0, 0), type |-> "none",
           m_arguments |-> EmptyMap, m_localMemory |-> 0]

\* The value a host binds to a parameter before a launch: as many bytes as
\* getArgumentSize reports.
LaunchValue(function, index) ==
  TypedValue(getArgumentSize(function, index), 1, getArgumentSize(function, index), 5)

\* The formal parameters bound so far.
BoundArgs(args) == { x \in DOMAIN args : x[1] = "arg" }

EnvValues == {"unset", "1", "0"}

\* The kernel of the launches explored.
LaunchSignatures == { <<GlobalPtrTy, LocalPtrTy>> }

RECURSIVE Product(_)
Product(s) == IF s = <<>> THEN 1 ELSE Head(s) * Product(Tail(s))

\* The N-D ranges a host passes to Device::run: work_dim and, for each of
\* its dimensions, the offset, the global size and the local size.
GlobalSizes(workDim) ==
  { gs \in [1 .. workDim -> 1 .. MaxWorkItems] : Product(gs) <= MaxWorkItems }
LocalSizes(workDim)  == [1 .. workDim -> 0 .. MaxLocalSize]
GlobalOffsets(workDim) == { [d \in 1 .. workDim |-> o] : o \in {0, 1} }
LaunchConfig(workDim, globalOffset, globalSize, localSize) ==
  [workDim |-> workDim, globalOffset |-> globalOffset,
   globalSize |-> globalSize, localSize |-> localSize]
LaunchConfigs ==
  UNION { { LaunchConfig(workDim, globalOffset, globalSize, localSize) :
              globalOffset \in GlobalOffsets(workDim),
              globalSize \in GlobalSizes(workDim),
              localSize \in LocalSizes(workDim) } : workDim \in Dims }

\* One-dimensional launches of one group and of two groups.
SmallLaunchConfigs ==
  { LaunchConfig(1, <<0>>, <<2>>, <<2>>), LaunchConfig(1, <<0>>, <<2>>, <<1>>) }

\* What the fresh range of each enumerated constant can hold: one of the
\* bytes, the same over the ranges a launch allocates.
FreshBytes == {0, 170}
Fills(fillBytes) == { [n \in 1 .. Len(m_constants) |-> f] : f \in fillBytes }

\* What the work-groups of a launch store to the global region while they
\* run: nothing, or the byte 255 over every live allocation.
RECURSIVE StoreOver(_, _)
StoreOver(memory, ranges) ==
  IF ranges = {} THEN memory
  ELSE LET r == CHOOSE x \in ranges : TRUE
       IN StoreOver(store(memory, r.base, r.size, [n \in 1 .. r.size |-> 255]),
                    ranges \ {r})
KernelStores(memory, storing) == IF storing THEN {{}, memory.live} ELSE {{}}
ApplyKernelStore(memory, st, evs) ==
  IF \E n \in DOMAIN evs : evs[n][1] = "run" THEN StoreOver(memory, st) ELSE memory

\* The constants as bound and initialised: for the n-th enumerated constant
\* the address it is bound to and the bytes of its buffer (-1: no binding,
\* no byte at the address).
Staged(args, memory) ==
  [n \in 1 .. Len(m_constants) |->
     LET key == GlobalVar(m_constants[n])
         address == IF key \in DOMAIN args THEN args[key].data ELSE -1
     IN [address |-> address,
         bytes   |-> [b \in 1 .. ModuleGlobals[m_constants[n]].initializer.typeSize |->
                        IF address + b - 1 \in DOMAIN memory.bytes
                        THEN memory.bytes[address + b - 1] ELSE -1]]]

\* The lines read by the command loop: end of stream or not, and the tokens.
Commands == {"continue", "quit", "help", "step", "bogus", ""}

\* ------------------------------------------------------------------------
\* Initial states
\* ------------------------------------------------------------------------
\* Kernel::Kernel, "Set-up global variables": the range of each module-scope
\* Local variable, the size of its type from the cursor as it was.
ReservedAtConstruction ==
  [key \in { GlobalVar(n) : n \in { x \in DOMAIN ModuleGlobals :
                                     ModuleGlobals[x].addressSpace = "AddrSpaceLocal" } } |->
     [offset |-> SetUpGlobals(key[2] - 1).m_localMemory,
      size   |-> ModuleGlobals[key[2]].typeSize]]

\* Kernel::Kernel on a function with one of the signatures.
InitKernel(signatures) ==
  /\ m_function \in signatures
  /\ m_requiredWorkGroupSize \in ReqdWorkGroupSizes
  /\ m_localMemory = SetUpGlobals(Len(ModuleGlobals)).m_localMemory
  /\ m_arguments = SetUpGlobals(Len(ModuleGlobals)).m_arguments
  /\ reserved = ReservedAtConstruction
  /\ lastCall = NoCall

\* Device::Device, the test of OCLGRIND_INTERACTIVE, taking any value that
\* is set for "1".
IsInteractive_anySetValue(environment) == environment # "unset"

\* Device::Device, the test of OCLGRIND_INTERACTIVE: env && strcmp(env, "1") == 0.
IsInteractive(environment) == environment = "1"

\* Device::Device in an environment e.  m_running, m_numGroups and
\* m_workGroups are not initialised by the constructor; m_running is any
\* of the values in running.
InitDevice(environments, running) ==
  /\ env \in environments
  /\ m_interactive = IsInteractive(env)
  /\ m_running \in running
  /\ m_numGroups = <<0, 0, 0>>
  /\ m_workGroups = <<>>
  /\ m_globalMemory = NewMemory
  /\ pc = "idle"
  /\ launch = NoLaunch
  /\ events = <<>>
  /\ launches = 0
  /\ liveAtEntry = {}
  /\ quitReceived = "no"
  /\ staged = <<>>

Init == InitKernel(LaunchSignatures) /\ InitDevice(EnvValues, BOOLEAN)

\* A kernel on its own: the Device is never used.
InitKernelOnly == InitKernel(Signatures) /\ InitDevice({"unset"}, {FALSE})

\* ------------------------------------------------------------------------
\* Actions: Kernel
\* ------------------------------------------------------------------------
\* The host calls Kernel::setArgument(index, value).
SetArgumentCall(index, value) ==
  /\ pc = "idle"
  /\ \E k \in setArgument(m_function, m_arguments, m_localMemory, index, value) :
       /\ k.m_localMemory <= 4 * MaxLocalWords
       /\ m_arguments' = k.m_arguments
       /\ m_localMemory' = k.m_localMemory
       /\ reserved' = IF index < getNumArguments(m_function)
                          /\ getArgumentType(m_function, index) = "CL_KERNEL_ARG_ADDRESS_LOCAL"
                       THEN Put(reserved, getArgument(index),
                                [offset |-> m_localMemory, size |-> value.size])
                       ELSE reserved
  /\ lastCall' = [index |-> index, value |-> value,
                  type |-> IF index >= getNumArguments(m_function) THEN "none"
                           ELSE getArgumentType(m_function, index),
                  m_arguments |-> m_arguments, m_localMemory |-> m_localMemory]
  /\ UNCHANGED <<m_function, m_requiredWorkGroupSize>>
  /\ UNCHANGED deviceVars

\* Any index, any value.
SetArgument == \E index \in ArgIndices(m_function), value \in ArgValues :
                 SetArgumentCall(index, value)

\* The host binds the parameters in order before its first launch.
SetLaunchArgument ==
  /\ launches = 0
  /\ Cardinality(BoundArgs(m_arguments)) < getNumArguments(m_function)
  /\ LET index == Cardinality(BoundArgs(m_arguments))
     IN SetArgumentCall(index, LaunchValue(m_function, index))

\* ------------------------------------------------------------------------
\* Actions: Device::run
\* ------------------------------------------------------------------------
\* Device::run from its entry to the first test of the command loop
\* (lines 364-415): sizes, allocateConstants, the work-groups, and either
\* m_running = true or the direct call of cont.  The launches are those of
\* configs; fillBytes and storing bound what the region and the kernel
\* code can do.
RunBeginWith(configs, fillBytes, storing) ==
  /\ pc = "idle"
  /\ launches < MaxLaunches
  /\ \E fill \in Fills(fillBytes) :
       LET k == allocateConstants(m_arguments, m_globalMemory, Len(m_constants), fill)
       IN /\ m_arguments' = k.m_arguments
          /\ staged' = IF staged = <<>> THEN << Staged(k.m_arguments, k.memory) >>
                       ELSE << staged[Len(staged)], Staged(k.m_arguments, k.memory) >>
          /\ \E config \in configs :
               LET workDim == config.workDim
                   offset  == Offset(workDim, config.globalOffset)
                   ndrange == NDRange(workDim, config.globalSize)
                   wgsize  == WGSize(workDim, config.localSize)
                   n       == NumGroups(ndrange, wgsize)
                   created == CreateWorkGroups(FirstCell(n), n,
                                [workGroups |-> [x \in 0 .. (TotalNumGroups(n) - 1) |-> NoGroup],
                                 events     |-> << <<"allocateConstants">> >>
                                                  \o ConstantsLog(Len(m_constants))])
                   ran     == cont(created.workGroups, n, created.events)
               IN /\ m_numGroups' = n
                  /\ launch' = [workDim |-> workDim, globalOffset |-> config.globalOffset,
                                globalSize |-> config.globalSize,
                                localSize |-> config.localSize,
                                offset |-> offset, ndrange |-> ndrange, wgsize |-> wgsize,
                                totalNumGroups |-> TotalNumGroups(n), read |-> FALSE]
                  /\ IF m_interactive
                     THEN /\ m_running' = TRUE
                          /\ m_workGroups' = created.workGroups
                          /\ events' = created.events
                          /\ m_globalMemory' = k.memory
                     ELSE /\ m_running' = FALSE
                          /\ m_workGroups' = ran.workGroups
                          /\ events' = ran.events
                          /\ \E st \in KernelStores(k.memory, storing) :
                               m_globalMemory' = ApplyKernelStore(k.memory, st, ran.events)
  /\ liveAtEntry' = m_globalMemory.live
  /\ launches' = launches + 1
  /\ pc' = "loop"
  /\ UNCHANGED <<m_function, m_requiredWorkGroupSize, m_localMemory, reserved, lastCall,
                 env, m_interactive, quitReceived>>

RunBegin == RunBeginWith(LaunchConfigs, {0}, FALSE)

\* One pass of the interactive loop (lines 415-449) on one line of input:
\* quit at end of stream, nothing more on an empty line, else the command
\* of the table, else "Unrecognized command".
ReadCommandWith(storing) ==
  /\ pc = "loop"
  /\ m_running
  /\ \E eof \in BOOLEAN, cmd \in Commands :
       LET atEof == IF eof THEN quit(m_interactive, m_running)
                    ELSE [m_interactive |-> m_interactive, m_running |-> m_running]
           after == IF cmd = "quit" THEN quit(atEof.m_interactive, atEof.m_running)
                    ELSE IF cmd = "continue" THEN [atEof EXCEPT !.m_running = FALSE]
                    ELSE atEof
           evs   == (events \o (IF eof THEN << <<"quit", "eof">> >> ELSE <<>>))
                      \o (IF cmd = "quit" THEN << <<"quit", "command">> >> ELSE <<>>)
           ran   == cont(m_workGroups, m_numGroups, Append(evs, <<"continue">>))
       IN /\ m_interactive' = after.m_interactive
          /\ m_running' = after.m_running
          /\ quitReceived' = IF cmd = "quit" THEN "command"
                             ELSE IF eof THEN "eof" ELSE quitReceived
          /\ IF cmd = "continue"
             THEN /\ m_workGroups' = ran.workGroups
                  /\ events' = ran.events
                  /\ \E st \in KernelStores(m_globalMemory, storing) :
                       m_globalMemory' = ApplyKernelStore(m_globalMemory, st, ran.events)
             ELSE /\ m_workGroups' = m_workGroups
                  /\ events' = evs
                  /\ m_globalMemory' = m_globalMemory
  /\ launch' = [launch EXCEPT !.read = TRUE]
  /\ UNCHANGED <<kernelVars, reserved, lastCall, env, m_numGroups, pc,
                 launches, liveAtEntry, staged>>

ReadCommand == ReadCommandWith(FALSE)

\* The loop has ended: "Destroy work-groups" and "Deallocate constant
\* memory" (lines 451-459).
RunEnd ==
  /\ pc = "loop"
  /\ ~m_running
  /\ events' = (events \o DestroyWorkGroups(launch.totalNumGroups))
                 \o << <<"deallocateConstants">> >>
  /\ m_workGroups' = <<>>
  /\ m_globalMemory' = deallocateConstants(m_globalMemory)
  /\ pc' = "done"
  /\ UNCHANGED <<kernelVars, reserved, lastCall, env, m_interactive, m_running, m_numGroups,
                 launch, launches, liveAtEntry, quitReceived, staged>>

\* Device::run returns to the host (line 460); its locals are gone, and
\* m_numGroups, which nothing reads before the next run overwrites it, is
\* represented as at construction.
RunReturn ==
  /\ pc = "done"
  /\ launch' = NoLaunch
  /\ m_numGroups' = <<0, 0, 0>>
  /\ events' = <<>>
  /\ liveAtEntry' = {}
  /\ pc' = "idle"
  /\ UNCHANGED <<kernelVars, reserved, lastCall, env, m_interactive, m_running,
                 m_workGroups, m_globalMemory, launches, quitReceived, staged>>

\* ------------------------------------------------------------------------
\* Specifications
\* ------------------------------------------------------------------------
\* The kernel under every setArgument call.
NextKernel == SetArgument

SpecKernel == InitKernelOnly /\ [][NextKernel]_vars

\* Launches of a kernel whose parameters the host binds in order.
Next ==
  \/ SetLaunchArgument
  \/ RunBegin
  \/ ReadCommand
  \/ RunEnd
  \/ RunReturn

Spec == Init /\ [][Next]_vars

\* Launches in one dimension, with every content of the fresh ranges and a
\* kernel that stores to the global region.
InitConstants == InitKernel(LaunchSignatures) /\ InitDevice({"unset", "1"}, {FALSE})

RunBeginStoring == RunBeginWith(SmallLaunchConfigs, FreshBytes, TRUE)
ReadCommandStoring == ReadCommandWith(TRUE)

NextConstants ==
  \/ SetLaunchArgument
  \/ RunBeginStoring
  \/ ReadCommandStoring
  \/ RunEnd
  \/ RunReturn

SpecConstants == InitConstants /\ [][NextConstants]_vars

\* ------------------------------------------------------------------------
\* Observations used by the properties
\* ------------------------------------------------------------------------
\* The positions of the events of one kind in the launch's log.
EventsOf(kind) == { n \in DOMAIN events : events[n][1] = kind }

\* The supplied local size is zero or does not divide the global size in
\* some dimension of the launch.
InvalidLocalSize ==
  \E d \in 1 .. launch.workDim :
    \/ launch.localSize[d] = 0
    \/ launch.globalSize[d] % launch.localSize[d] # 0

\* The supplied local size differs from a non-zero required size.
RequiredSizeMismatch ==
  \E d \in 1 .. launch.workDim :
    /\ m_requiredWorkGroupSize[d] # 0
    /\ launch.localSize[d] # m_requiredWorkGroupSize[d]

\* global_size_d / local_size_d of the launch; 1 beyond work_dim.
GroupsIn(d) ==
  IF d <= launch.workDim THEN launch.globalSize[d] \div launch.localSize[d] ELSE 1

\* The group coordinates and the global ids of the launch's range.
GroupCoordinates ==
  { <<i, j, k>> : i \in 0 .. (GroupsIn(1) - 1), j \in 0 .. (GroupsIn(2) - 1),
                  k \in 0 .. (GroupsIn(3) - 1) }
RangeOf(d) ==
  IF d <= launch.workDim
  THEN launch.globalOffset[d] .. (launch.globalOffset[d] + launch.globalSize[d] - 1)
  ELSE {0}
GlobalRange == { <<x, y, z>> : x \in RangeOf(1), y \in RangeOf(2), z \in RangeOf(3) }

\* The work-items of the launch: (slot of m_workGroups, local id).
WorkItems == (DOMAIN m_workGroups) \X LocalIDs(launch.wgsize)
GlobalIDOf(item) ==
  LET g == GlobalID(m_workGroups[item[1]].groupID, item[2], launch.offset, launch.wgsize)
  IN <<g[1], g[2], g[3]>>

\* The latest setArgument call: was its index a parameter, and which.
CallInRange == lastCall.index >= 0 /\ lastCall.index < Len(m_function)
CallType == m_function[lastCall.index + 1]
CallOnLocal ==
  CallInRange /\ CallType.isPointerTy /\ CallType.addressSpace = "AddrSpaceLocal"
CallOnValue == CallInRange /\ ~CallOnLocal
CallKey == <<"arg", lastCall.index>>
CallBytes == lastCall.value.size * lastCall.value.num

\* ------------------------------------------------------------------------
\* Properties
\* ------------------------------------------------------------------------
\* C1: a launch whose local size is zero or does not divide the global size
\* in some dimension creates no work-group (it fails first); a launch whose
\* local sizes all divide proceeds with num_groups_d = global_d / local_d.
C1_InvalidWorkSizeFails ==
  pc # "idle" =>
    IF InvalidLocalSize
    THEN EventsOf("new") = {}
    ELSE \A d \in 1 .. launch.workDim : m_numGroups[d] = GroupsIn(d)

\* C2: a launch whose local size differs from the kernel's non-zero required
\* work-group size creates no work-group, runs none and publishes no
\* kernelBegin.
C2_RequiredSizeMismatchFails ==
  (pc # "idle" /\ RequiredSizeMismatch) =>
    /\ EventsOf("new") = {}
    /\ EventsOf("run") = {}
    /\ EventsOf("kernelBegin") = {}

\* C3: a launch with valid sizes creates exactly prod_d global_d / local_d
\* work-groups, one per group coordinate, and every global id of the range
\* is the id of exactly one work-item; no work-item lies outside the range.
C3_Decomposition ==
  (pc = "loop" /\ ~InvalidLocalSize) =>
    /\ Cardinality(EventsOf("new")) = GroupsIn(1) * GroupsIn(2) * GroupsIn(3)
    /\ Cardinality(DOMAIN m_workGroups) = GroupsIn(1) * GroupsIn(2) * GroupsIn(3)
    /\ \A x \in DOMAIN m_workGroups : m_workGroups[x].groupID \in GroupCoordinates
    /\ \A c \in GroupCoordinates :
         Cardinality({ x \in DOMAIN m_workGroups : m_workGroups[x].groupID = c }) = 1
    /\ \A item \in WorkItems : GlobalIDOf(item) \in GlobalRange
    /\ \A g \in GlobalRange :
         Cardinality({ item \in WorkItems : GlobalIDOf(item) = g }) = 1

\* A valid launch in more than one dimension, with several groups of several
\* work-items and a global offset, has created its groups.
C3_Witness ==
  /\ pc = "loop"
  /\ ~InvalidLocalSize
  /\ launch.workDim >= 2
  /\ launch.totalNumGroups >= 2
  /\ \E d \in Dims : launch.wgsize[d] >= 2
  /\ launch.offset[1] > 0

\* C4: every setArgument on a Local pointer parameter increases the local
\* memory size by exactly the requested number of bytes (value.size).
C4_LocalMemoryGrowsByRequest ==
  CallOnLocal => m_localMemory = lastCall.m_localMemory + lastCall.value.size

\* A repeated setArgument on a Local pointer parameter that was bound already.
C4_Witness ==
  /\ CallOnLocal
  /\ CallKey \in DOMAIN lastCall.m_arguments
  /\ lastCall.value.num > 1
  /\ m_localMemory > lastCall.m_localMemory

\* C5: when the launch is over its log is: allocate_constants, kernelBegin
\* (once), the work-group events, kernelEnd (once), deallocate_constants.
C5_KernelBeginEndAroundGroups ==
  pc = "done" =>
    /\ Cardinality(EventsOf("kernelBegin")) = 1
    /\ Cardinality(EventsOf("kernelEnd")) = 1
    /\ \A a \in EventsOf("allocateConstants"), b \in EventsOf("kernelBegin") : a < b
    /\ \A b \in EventsOf("kernelBegin"),
          g \in EventsOf("new") \cup EventsOf("run") \cup EventsOf("delete") : b < g
    /\ \A g \in EventsOf("new") \cup EventsOf("run") \cup EventsOf("delete"),
          e \in EventsOf("kernelEnd") : g < e
    /\ \A e \in EventsOf("kernelEnd"), z \in EventsOf("deallocateConstants") : e < z

\* C6: when the launch is over, the live global allocations are those that
\* were live when it began.
C6_ConstantsReleased ==
  pc = "done" => m_globalMemory.live = liveAtEntry

\* C7: setArgument with index >= num_arguments leaves every binding, the set
\* of bound values and the local memory size as they were.
C7_OutOfRangeChangesNothing ==
  (lastCall.index >= Len(m_function)) =>
    /\ m_arguments = lastCall.m_arguments
    /\ m_localMemory = lastCall.m_localMemory

\* An out-of-range setArgument on a kernel with a bound parameter.
C7_Witness ==
  /\ lastCall.index >= Len(m_function)
  /\ BoundArgs(m_arguments) # {}

\* C8: setArgument on a non-Local parameter with a value whose byte size is
\* not argument_size(index) leaves the parameter's prior binding in place.
C8_WrongSizeRejected ==
  (CallOnValue /\ CallBytes # getArgumentSize(m_function, lastCall.index)) =>
    /\ CallKey \in DOMAIN m_arguments <=> CallKey \in DOMAIN lastCall.m_arguments
    /\ CallKey \in DOMAIN m_arguments => m_arguments[CallKey] = lastCall.m_arguments[CallKey]

\* C9: after setArgument on a Local pointer parameter the binding is a
\* pointer value: elem_size = pointer width, count = 1, a buffer of
\* elem_size * count bytes, holding the local memory size before the call.
C9_LocalBindingIsPointer ==
  CallOnLocal =>
    /\ CallKey \in DOMAIN m_arguments
    /\ m_arguments[CallKey].size = PtrWidth
    /\ m_arguments[CallKey].num = 1
    /\ m_arguments[CallKey].buf = m_arguments[CallKey].size * m_arguments[CallKey].num
    /\ m_arguments[CallKey].data = lastCall.m_localMemory

\* C10: setArgument on a non-Local vector parameter of width w with a value
\* of s bytes binds count = w and elem_size with elem_size * count = s; on a
\* scalar parameter the binding keeps the passed elem_size and count.
\* Stated for the values whose byte size is argument_size(index); the others
\* are the subject of C8.
C10_VectorLaneLayout ==
  (CallOnValue /\ CallBytes = getArgumentSize(m_function, lastCall.index)) =>
    /\ CallKey \in DOMAIN m_arguments
    /\ IF CallType.isVectorTy
       THEN /\ m_arguments[CallKey].num = CallType.vectorNumElements
            /\ m_arguments[CallKey].size * m_arguments[CallKey].num = CallBytes
       ELSE /\ m_arguments[CallKey].size = lastCall.value.size
            /\ m_arguments[CallKey].num = lastCall.value.num

\* C11: whenever the launch has created or run a work-group, every formal
\* parameter of the kernel has a binding in the argument map.
C11_EveryParameterBound ==
  (pc # "idle" /\ (EventsOf("new") # {} \/ EventsOf("run") # {})) =>
    \A index \in 0 .. (getNumArguments(m_function) - 1) :
      getArgument(index) \in DOMAIN m_arguments

\* The constants of the launch: position in m_constants, initializer, the
\* binding, and what allocateConstants left at the bound address.
ConstantPositions == 1 .. Len(m_constants)
InitializerOf(n) == ModuleGlobals[m_constants[n]].initializer
BindingOf(n) == m_arguments[GlobalVar(m_constants[n])]
StagedNow(n) == staged[Len(staged)][n]

\* The initializer is an array or a primitive; it is one the kernel
\* serialises: an array of integer or float elements, or a float.
ArrayOrPrimitive(init) == isArrayTy(init.typeID) \/ isPrimitiveType(init.typeID)
Serialised(init) ==
  \/ /\ isArrayTy(init.typeID)
     /\ \A i \in DOMAIN init.elements :
          init.elements[i].typeID \in {"IntegerTyID", "FloatTyID"}
  \/ /\ isPrimitiveType(init.typeID)
     /\ init.typeID = "FloatTyID"

\* The n-th constant is bound to a pointer value holding the address of a
\* buffer of its type size allocated by this launch, and the buffer holds
\* the initializer, little-endian, element i at A + i * elem_size.
BoundAndInitialised(n) ==
  LET init == InitializerOf(n)
      A    == StagedNow(n).address
  IN /\ GlobalVar(m_constants[n]) \in DOMAIN m_arguments
     /\ BindingOf(n) = TypedValue(PtrWidth, 1, PtrWidth, A)
     /\ [base |-> A, size |-> init.typeSize] \in m_globalMemory.live \ liveAtEntry
     /\ IF isArrayTy(init.typeID)
        THEN \A i \in 0 .. (Len(init.elements) - 1) :
               \A j \in 0 .. (init.elements[i + 1].typeSize - 1) :
                 StagedNow(n).bytes[i * init.elements[1].typeSize + j + 1]
                   = ByteOf(init.elements[i + 1].bits, j)
        ELSE \A j \in 0 .. (init.typeSize - 1) :
               StagedNow(n).bytes[j + 1] = ByteOf(init.bits, j)

\* C12 as claimed: after allocate_constants every enumerated constant of
\* array or primitive type is bound to a fresh buffer of its type size that
\* holds its initializer.
C12_ArrayOrPrimitiveInitialised ==
  pc = "loop" =>
    \A n \in ConstantPositions :
      ArrayOrPrimitive(InitializerOf(n)) => BoundAndInitialised(n)

\* C12: after allocate_constants every enumerated constant that is an array
\* of integer or float elements, or a float, is bound to a pointer value
\* holding the address A of a fresh global-region buffer of its type size,
\* and the buffer holds the initializer: element i at A + i * elem_size.
C12_SerialisedInitialised ==
  pc = "loop" =>
    \A n \in ConstantPositions :
      Serialised(InitializerOf(n)) => BoundAndInitialised(n)

\* The second launch has staged an array with a multi-byte element at a
\* non-zero address.
C12_Witness ==
  /\ pc = "loop"
  /\ launches = 2
  /\ \E n \in ConstantPositions :
       /\ isArrayTy(InitializerOf(n).typeID)
       /\ Serialised(InitializerOf(n))
       /\ StagedNow(n).address > 0
       /\ StagedNow(n).bytes[5] = 2 /\ StagedNow(n).bytes[6] = 1

\* C13 as claimed: the buffers of every constant hold the same bytes after
\* allocate_constants of two successive launches.
C13_ConstantsIdentical ==
  Len(staged) = 2 =>
    \A n \in ConstantPositions : staged[1][n].bytes = staged[2][n].bytes

\* C13: for every constant that is an array of integer or float elements, or
\* a float, the buffers the constant is bound to in two successive launches
\* hold the same bytes after allocate_constants, whatever the first launch
\* stored to the global region.
C13_SerialisedConstantsIdentical ==
  Len(staged) = 2 =>
    \A n \in ConstantPositions :
      Serialised(InitializerOf(n)) => staged[1][n].bytes = staged[2][n].bytes

\* The second launch has staged its constants at other addresses, has not
\* run a group yet, and the first launch stored over its own constants.
C13_Witness ==
  /\ Len(staged) = 2
  /\ pc = "loop" /\ m_running /\ EventsOf("run") = {}
  /\ \E n \in ConstantPositions :
       /\ Serialised(InitializerOf(n))
       /\ staged[1][n].address # staged[2][n].address
       /\ m_globalMemory.bytes[staged[1][n].address] = 255
       /\ m_globalMemory.bytes[staged[1][n].address] # staged[1][n].bytes[1]

\* The OpenCL enumeration value of an address-space tag.
EnumerationValueOf(addressSpace) ==
  CASE addressSpace = "AddrSpacePrivate"  -> "CL_KERNEL_ARG_ADDRESS_PRIVATE"
    [] addressSpace = "AddrSpaceGlobal"   -> "CL_KERNEL_ARG_ADDRESS_GLOBAL"
    [] addressSpace = "AddrSpaceConstant" -> "CL_KERNEL_ARG_ADDRESS_CONSTANT"
    [] addressSpace = "AddrSpaceLocal"    -> "CL_KERNEL_ARG_ADDRESS_LOCAL"

\* C14: for every valid index the classification returned is one of PRIVATE,
\* GLOBAL, CONSTANT, LOCAL: PRIVATE for a non-pointer parameter, and for a
\* pointer parameter the value of its address-space tag.
C14_AddressSpaceEnumeration ==
  CallInRange =>
    /\ lastCall.type \in {"CL_KERNEL_ARG_ADDRESS_PRIVATE", "CL_KERNEL_ARG_ADDRESS_GLOBAL",
                          "CL_KERNEL_ARG_ADDRESS_CONSTANT", "CL_KERNEL_ARG_ADDRESS_LOCAL"}
    /\ lastCall.type = IF CallType.isPointerTy
                       THEN EnumerationValueOf(CallType.addressSpace)
                       ELSE "CL_KERNEL_ARG_ADDRESS_PRIVATE"

\* The slots of the groups the launch created / ran, and: every run of a
\* group comes after a continue command of this launch.
CreatedSlots == { events[n][2] : n \in EventsOf("new") }
RanSlots == { events[n][2] : n \in EventsOf("run") }
RunsFollowContinue ==
  \A r \in EventsOf("run") : \E c \in EventsOf("continue") : c < r
RanAllWithoutCommand ==
  /\ ~launch.read
  /\ EventsOf("continue") = {}
  /\ RanSlots = CreatedSlots
  /\ Cardinality(EventsOf("run")) = Cardinality(EventsOf("new"))

\* Device::quit was called during an earlier launch.
QuitBeforeLaunch == quitReceived # "no" /\ EventsOf("quit") = {}

\* C15 as claimed: with OCLGRIND_INTERACTIVE = "1" at construction no launch
\* runs a work-group before a continue command; with any other value every
\* launch runs all its groups without reading a command.
C15_InteractiveYields ==
  pc # "idle" =>
    IF env = "1" THEN RunsFollowContinue ELSE RanAllWithoutCommand

\* C15: with OCLGRIND_INTERACTIVE = "1" at construction, a launch runs no
\* work-group before a continue command unless quit or the end of input was
\* received in an earlier launch; with any other value every launch runs all
\* its groups without reading a command.
C15_InteractiveYieldsUntilQuit ==
  pc # "idle" =>
    IF env = "1" THEN (QuitBeforeLaunch \/ RunsFollowContinue) ELSE RanAllWithoutCommand

\* An interactive launch of several groups that read a line, then a
\* continue, and ran its groups.
C15_Witness ==
  /\ env = "1"
  /\ quitReceived = "no"
  /\ launch.read
  /\ EventsOf("continue") # {}
  /\ Cardinality(EventsOf("run")) >= 2

\* The coordinates of the groups of the launch as m_numGroups counts them,
\* and the flat index i + (k*Ny + j)*Nx of a coordinate.
NumGroupCoordinates ==
  { <<i, j, k>> : i \in 0 .. (m_numGroups[1] - 1), j \in 0 .. (m_numGroups[2] - 1),
                  k \in 0 .. (m_numGroups[3] - 1) }
FlatIndex(c) == c[1] + (c[3] * m_numGroups[2] + c[2]) * m_numGroups[1]
RunsOf(slot) == { r \in EventsOf("run") : events[r][2] = slot }

\* The launch took the non-interactive branch.
DirectLaunch == env # "1" \/ QuitBeforeLaunch

\* C16: the groups of a launch are run one after the other in increasing
\* flat index i + (k*Ny + j)*Nx, each run being that of the group with those
\* coordinates; distinct coordinates have distinct indices in
\* 0 .. Nx*Ny*Nz-1; each created group is run exactly once by a
\* non-interactive launch and at most once by an interactive one.
C16_RunOrder ==
  pc # "idle" =>
    /\ \A r \in EventsOf("run") :
         /\ events[r][3] \in NumGroupCoordinates
         /\ events[r][2] = FlatIndex(events[r][3])
    /\ \A r1, r2 \in EventsOf("run") : r1 < r2 => events[r1][2] < events[r2][2]
    /\ \A c1, c2 \in NumGroupCoordinates :
         /\ FlatIndex(c1) \in 0 .. (TotalNumGroups(m_numGroups) - 1)
         /\ c1 # c2 => FlatIndex(c1) # FlatIndex(c2)
    /\ \A slot \in CreatedSlots :
         IF DirectLaunch THEN Cardinality(RunsOf(slot)) = 1
                         ELSE Cardinality(RunsOf(slot)) <= 1
    /\ RanSlots \subseteq CreatedSlots

\* An interactive launch with several groups along x and along y has run
\* them after a continue.
C16_Witness ==
  /\ pc = "loop"
  /\ ~DirectLaunch
  /\ m_numGroups[1] >= 2 /\ m_numGroups[2] >= 2
  /\ EventsOf("continue") # {}
  /\ Cardinality(EventsOf("run")) >= 4
  /\ Cardinality(EventsOf("run")) = TotalNumGroups(m_numGroups)

\* C17: when the module holds constants the kernel cannot serialise (a
\* struct, a double, an array of doubles), allocate_constants logs each of
\* them and stores nothing of it, every other constant is allocated,
\* initialised and bound, and the launch goes on to create its groups.
C17_UnhandledConstantSkipped ==
  pc = "loop" =>
    /\ \A n \in ConstantPositions :
         IF Serialised(InitializerOf(n))
         THEN BoundAndInitialised(n)
         ELSE /\ \E e \in DOMAIN events :
                   /\ events[e][1] \in {"Unhandled constant type",
                                        "Unhandled constant buffer type"}
                   /\ events[e][2] = n
              /\ \A b \in DOMAIN StagedNow(n).bytes : StagedNow(n).bytes[b] \in FreshBytes
    /\ Cardinality(EventsOf("new")) = launch.totalNumGroups
    /\ \A e \in EventsOf("new") : \A a \in EventsOf("allocateConstants") : a < e

\* A launch has created groups after staging a float constant that follows a
\* struct, a double and an array of doubles in the list of constants.
C17_Witness ==
  /\ pc = "loop"
  /\ EventsOf("new") # {}
  /\ EventsOf("Unhandled constant buffer type") # {}
  /\ Cardinality(EventsOf("Unhandled constant type")) >= 2
  /\ \E n, m \in ConstantPositions :
       /\ n < m
       /\ ~Serialised(InitializerOf(n)) /\ ~ArrayOrPrimitive(InitializerOf(n))
       /\ Serialised(InitializerOf(m))
       /\ BoundAndInitialised(m)

DeletesOf(slot) == { d \in EventsOf("delete") : events[d][2] = slot }

\* C18: when Device::run is about to return, every work-group it created
\* has been destroyed exactly once (and nothing else has), after every run
\* of a group; deallocate_constants has been called exactly once, after the
\* destruction; and m_running is false.
C18_TeardownOnEveryPath ==
  pc = "done" =>
    /\ \A slot \in CreatedSlots : Cardinality(DeletesOf(slot)) = 1
    /\ \A d \in EventsOf("delete") : events[d][2] \in CreatedSlots
    /\ \A d \in EventsOf("delete"), r \in EventsOf("run") \cup EventsOf("new") : r < d
    /\ Cardinality(EventsOf("deallocateConstants")) = 1
    /\ \A z \in EventsOf("deallocateConstants"), d \in EventsOf("delete") : d < z
    /\ ~m_running

\* A launch that was quit with several groups created and none run is about
\* to return.
C18_Witness ==
  /\ pc = "done"
  /\ EventsOf("quit") # {}
  /\ Cardinality(EventsOf("new")) >= 2
  /\ EventsOf("run") = {}
  /\ Cardinality(EventsOf("delete")) >= 2

\* The quit commands of the launch's log.
QuitCommands == { q \in EventsOf("quit") : events[q][2] = "command" }

\* C19: a quit command ends the launch with no work-group run after it and
\* the command loop stopped; it leaves the Device non-interactive, and every
\* later launch on the Device runs all its groups directly, reading no
\* command.
C19_QuitDisablesInteractive ==
  /\ pc # "idle" =>
       \A q \in QuitCommands :
         /\ \A r \in EventsOf("run") : r < q
         /\ ~m_running
  /\ quitReceived = "command" => ~m_interactive
  /\ (pc # "idle" /\ quitReceived = "command" /\ QuitCommands = {}) =>
       RanAllWithoutCommand

\* On a Device constructed interactive, a launch after the one that was
\* ended by a quit command has run its several groups.
C19_Witness ==
  /\ env = "1"
  /\ quitReceived = "command"
  /\ QuitCommands = {}
  /\ launches = 2
  /\ pc = "loop"
  /\ Cardinality(EventsOf("run")) >= 2

\* The bindings that stand for local memory: module-scope Local variables
\* and Local-pointer parameters.
LocalKeys ==
  { key \in DOMAIN m_arguments :
      \/ key[1] = "global" /\ ModuleGlobals[key[2]].addressSpace = "AddrSpaceLocal"
      \/ /\ key[1] = "arg"
         /\ m_function[key[2] + 1].isPointerTy
         /\ m_function[key[2] + 1].addressSpace = "AddrSpaceLocal" }
RangeOfKey(key) == reserved[key].offset .. (reserved[key].offset + reserved[key].size - 1)

\* C20: the ranges reserved for the module-scope Local variables and for the
\* Local-pointer bindings are pairwise disjoint and lie within
\* [0, local_memory_size); a binding whose buffer can hold a size_t holds the
\* offset of its range; local_memory_size never decreases; setArgument on a
\* non-Local parameter leaves it and every other binding unchanged.
C20_LocalRangesDisjoint ==
  /\ DOMAIN reserved = LocalKeys
  /\ \A a, b \in LocalKeys : a # b => RangeOfKey(a) \cap RangeOfKey(b) = {}
  /\ \A a \in LocalKeys :
       /\ RangeOfKey(a) \subseteq 0 .. (m_localMemory - 1)
       /\ m_arguments[a].buf >= PtrWidth => m_arguments[a].data = reserved[a].offset
  /\ lastCall.index >= 0 => m_localMemory >= lastCall.m_localMemory
  /\ CallOnValue =>
       /\ m_localMemory = lastCall.m_localMemory
       /\ DOMAIN m_arguments = DOMAIN lastCall.m_arguments \cup {CallKey}
       /\ \A key \in DOMAIN lastCall.m_arguments \ {CallKey} :
            m_arguments[key] = lastCall.m_arguments[key]

\* A kernel with two module-scope Local variables and a Local-pointer
\* parameter that was bound twice, after a setArgument on a non-Local
\* parameter that replaced a binding.
C20_Witness ==
  /\ CallOnValue
  /\ CallKey \in DOMAIN lastCall.m_arguments
  /\ Cardinality(LocalKeys) >= 3
  /\ \E a \in LocalKeys :
       /\ a[1] = "arg"
       /\ reserved[a].offset > SetUpGlobals(Len(ModuleGlobals)).m_localMemory

====
